---- MODULE Spec2Model ----
(***************************************************************************)
(* Privacy risk assessment engine of lokikg18/Privacy_analysis:            *)
(*   - the risk scoring heuristic      (generate_dataset.py)               *)
(*   - the feature transformer         (ml_models/data_preprocessor.py)    *)
(*   - the risk classifier             (ml_models/privacy_risk_classifier) *)
(*   - the knowledge base handler      (ontology_handlers/privacy_ontology *)
(*                                      as called by api/main.py)          *)
(* Each component has its own specification over the shared variables.     *)
(***************************************************************************)
EXTENDS Integers, Sequences, FiniteSets, TLC

VARIABLES
    df,          \* generate_dataset: the data frame handed to calculate_risk_level
    scoreOut,    \* generate_dataset: outcome of the last calculate_risk_level call
    scoreCalls,  \* generate_dataset: number of calculate_risk_level calls made
    clfEncoders, \* PrivacyRiskClassifier.label_encoders
    clfModel,    \* PrivacyRiskClassifier.classifier (the fitted forest)
    clfOut,      \* outcome of the last train / predict / predict_proba call
    clfFile,     \* the file at PrivacyRiskClassifier.model_path (privacy_risk_model.joblib)
    clfTrainVocab, \* history: per feature, the values of the last completed train call
    clfCalls,    \* the predict / predict_proba calls in flight, per calling thread
    pre,         \* the DataPreprocessor objects: scaler, label_encoders, feature_columns
    preFile,     \* the file at model_path (preprocessor.joblib)
    preOut,      \* outcome of the last DataPreprocessor call
    preSaved,    \* history: the state of the saving object at the last save
    preCalls,    \* number of DataPreprocessor calls made
    preFitColumns, \* history: per object and for the file, the column labels of
                 \* the matrix returned by the last completed preprocess_data
    kbStore,     \* the MitigationStrategy individuals of the loaded ontology
    kbOut,       \* outcome of the last call on ontology_handler
    users_db,    \* api/main.py: users by user id, and by access token
    devices_db,  \* api/main.py: devices by device id
    policies_db, \* api/main.py: policies by policy id
    risk_history, \* api/main.py: the list of stored risk assessments
    apiIds,      \* number of uuid4 values drawn so far
    apiOut,      \* the last HTTP response
    apiRegistered, \* history: per email, the password sent to /users
    apiIssued    \* history: the access tokens /token has returned

scoreVars == <<df, scoreOut, scoreCalls>>

clfVars == <<clfEncoders, clfModel, clfOut, clfFile, clfTrainVocab, clfCalls>>

preVars == <<pre, preFile, preOut, preSaved, preCalls, preFitColumns>>

kbVars == <<kbStore, kbOut>>

dbVars == <<users_db, devices_db, policies_db, risk_history>>

apiVars == <<dbVars, apiIds, apiOut, apiRegistered, apiIssued>>

vars == <<scoreVars, clfVars, preVars, kbVars, apiVars>>

(***************************************************************************)
(* Bounds of the model.                                                    *)
(***************************************************************************)
MaxRows == 2
MaxCalls == 2
MaxBatch == 2
MaxStrategies == 2
MaxPreCalls == 3
MaxIds == 3

\* Threads calling the shared classifier at the same time.
MaxCallers == 2

\* Entries risk_history grows to.
MaxHistory == 2

(***************************************************************************)
(* Vocabularies (models/domain_models.py) and numeric domains              *)
(* (generate_device_data).                                                 *)
(***************************************************************************)
DeviceTypes == {"camera", "sensor", "actuator", "gateway", "wearable"}

DataTypes ==
    {"location", "video", "audio", "temperature", "humidity", "pressure",
     "health", "identification"}

LocationTypes == {"public_space", "private_space", "semi_public", "restricted"}

AccessPatterns == {"regular", "irregular", "burst"}

DataSharings == {"none", "internal", "external"}

ComplianceStatuses == {"compliant", "partially_compliant", "non_compliant"}

\* A value outside every vocabulary.
UnknownCategory == "unlisted"

RiskLevels == 1..5

(***************************************************************************)
(* calculate_risk_level: the lookup tables and the per-row score.          *)
(***************************************************************************)
device_risk ==
    [camera |-> 4, sensor |-> 2, actuator |-> 3, gateway |-> 4, wearable |-> 5]

data_risk ==
    [location |-> 5, video |-> 5, audio |-> 4, temperature |-> 1,
     humidity |-> 1, pressure |-> 1, health |-> 5, identification |-> 5]

location_risk ==
    [public_space |-> 3, private_space |-> 4, semi_public |-> 3, restricted |-> 5]

\* Python's int(a / b) for b > 0: the quotient truncated toward zero.
IntDiv(a, b) == IF a >= 0 THEN a \div b ELSE -((-a) \div b)

Min(a, b) == IF a <= b THEN a ELSE b

Max(a, b) == IF a >= b THEN a ELSE b

\* A dictionary lookup of lines 168, 181, 190 raises KeyError on this row.
RowKeyError(row) ==
    \/ row.device_type \notin DOMAIN device_risk
    \/ row.data_type \notin DOMAIN data_risk
    \/ row.location_type \notin DOMAIN location_risk

\* Contribution of the if / elif chains: a value matching no branch adds 0.
AccessPatternRisk(v) ==
    IF v = "irregular" THEN 1 ELSE IF v = "burst" THEN 2 ELSE 0

DataSharingRisk(v) ==
    IF v = "external" THEN 3 ELSE IF v = "internal" THEN 1 ELSE 0

ComplianceRisk(v) ==
    IF v = "non_compliant" THEN 3 ELSE IF v = "partially_compliant" THEN 1 ELSE 0

\* Mutant of Penalty: the points are added when the flag is set.
PenaltyWhenSet(flag, points) == IF flag THEN points ELSE 0

Penalty(flag, points) == IF ~flag THEN points ELSE 0

\* risk_score of one row whose three table lookups succeed.
RiskScore(row) ==
      device_risk[row.device_type]
    + data_risk[row.data_type]
    + location_risk[row.location_type]
    + (6 - row.network_security_level)
    + row.data_sensitivity
    + (4 - row.encryption_level)
    + Penalty(row.user_consent, 2)
    + AccessPatternRisk(row.access_pattern)
    + (IF row.last_audit_days > 30 THEN 1 ELSE 0)
    + Penalty(row.data_anonymization, 2)
    + Penalty(row.data_pseudonymization, 1)
    + Penalty(row.data_minimization, 2)
    + Penalty(row.purpose_limitation, 2)
    + DataSharingRisk(row.data_sharing)
    + ComplianceRisk(row.compliance_status)
    + row.security_incidents
    + Penalty(row.privacy_impact_assessment, 2)
    + Penalty(row.data_protection_officer, 1)

\* Mutants of Normalize: the upper clamp dropped; the divisor changed.
NormalizeNoUpperClamp(score) == Max(1, IntDiv(score, 8))

NormalizeBySeven(score) == Min(5, Max(1, IntDiv(score, 7)))

\* Line 236: min(5, max(1, int(risk_score / 8))).
Normalize(score) == Min(5, Max(1, IntDiv(score, 8)))

RiskLevel(row) == Normalize(RiskScore(row))

\* Mutants of LabelRows: the list of an earlier call is kept and extended;
\* the labels come out in reverse row order.
LabelRowsAccumulated(d) ==
    scoreOut.labels \o [i \in 1..Len(d) |-> RiskLevel(d[i])]

LabelRowsReversed(d) == [i \in 1..Len(d) |-> RiskLevel(d[Len(d) + 1 - i])]

\* Lines 155-239: one label appended per row, in iteration order.
LabelRows(d) == [i \in 1..Len(d) |-> RiskLevel(d[i])]

(***************************************************************************)
(* Rows the data frame is drawn from.                                      *)
(***************************************************************************)
\* Scenario A: every field at its worst-case value.
ScenarioA ==
    [device_type |-> "camera", data_type |-> "video",
     location_type |-> "public_space",
     network_security_level |-> 1, data_sensitivity |-> 5,
     encryption_level |-> 1, user_consent |-> FALSE,
     access_pattern |-> "burst", last_audit_days |-> 89,
     data_anonymization |-> FALSE, data_pseudonymization |-> FALSE,
     data_minimization |-> FALSE, purpose_limitation |-> FALSE,
     data_sharing |-> "external", compliance_status |-> "non_compliant",
     security_incidents |-> 4,
     privacy_impact_assessment |-> FALSE, data_protection_officer |-> FALSE]

\* Scenario B: scenario A with the security levels, consent, sensitivity,
\* privacy controls, sharing and compliance at their safest values.
ScenarioB ==
    [ScenarioA EXCEPT
        !.network_security_level = 5, !.encryption_level = 3,
        !.user_consent = TRUE, !.data_sensitivity = 1,
        !.data_anonymization = TRUE, !.data_pseudonymization = TRUE,
        !.data_minimization = TRUE, !.purpose_limitation = TRUE,
        !.privacy_impact_assessment = TRUE, !.data_protection_officer = TRUE,
        !.data_sharing = "none", !.compliance_status = "compliant"]

\* The safest valid row.
SafestRow ==
    [ScenarioB EXCEPT
        !.device_type = "sensor", !.data_type = "temperature",
        !.access_pattern = "regular", !.last_audit_days = 1,
        !.security_incidents = 0]

\* The riskiest valid row.
RiskiestRow ==
    [ScenarioA EXCEPT
        !.device_type = "wearable", !.data_type = "location",
        !.location_type = "restricted"]

\* A row between the extremes.
MiddleRow ==
    [ScenarioA EXCEPT
        !.network_security_level = 3, !.data_sensitivity = 3,
        !.encryption_level = 2, !.user_consent = TRUE,
        !.data_anonymization = TRUE, !.data_minimization = TRUE,
        !.data_sharing = "internal",
        !.compliance_status = "partially_compliant",
        !.security_incidents = 2]

\* Each categorical field of base taken through its vocabulary and through
\* one value outside it.
CategoricalVariants(base) ==
         {[base EXCEPT !.device_type = v] : v \in DeviceTypes \cup {UnknownCategory}}
    \cup {[base EXCEPT !.data_type = v] : v \in DataTypes \cup {UnknownCategory}}
    \cup {[base EXCEPT !.location_type = v] : v \in LocationTypes \cup {UnknownCategory}}
    \cup {[base EXCEPT !.access_pattern = v] : v \in AccessPatterns \cup {UnknownCategory}}
    \cup {[base EXCEPT !.data_sharing = v] : v \in DataSharings \cup {UnknownCategory}}
    \cup {[base EXCEPT !.compliance_status = v] :
             v \in ComplianceStatuses \cup {UnknownCategory}}

\* Each numeric field of base taken through its domain, the audit age on both
\* sides of the 30-day threshold.
NumericVariants(base) ==
         {[base EXCEPT !.network_security_level = v] : v \in 1..5}
    \cup {[base EXCEPT !.data_sensitivity = v] : v \in 1..5}
    \cup {[base EXCEPT !.encryption_level = v] : v \in 1..3}
    \cup {[base EXCEPT !.security_incidents = v] : v \in 0..4}
    \cup {[base EXCEPT !.last_audit_days = v] : v \in {30, 31}}

\* Each boolean field of base flipped.
BooleanVariants(base) ==
    {[base EXCEPT !.user_consent = ~base.user_consent],
     [base EXCEPT !.data_anonymization = ~base.data_anonymization],
     [base EXCEPT !.data_pseudonymization = ~base.data_pseudonymization],
     [base EXCEPT !.data_minimization = ~base.data_minimization],
     [base EXCEPT !.purpose_limitation = ~base.purpose_limitation],
     [base EXCEPT !.privacy_impact_assessment = ~base.privacy_impact_assessment],
     [base EXCEPT !.data_protection_officer = ~base.data_protection_officer]}

SampleRows ==
    {ScenarioA, ScenarioB, SafestRow, RiskiestRow, MiddleRow}
        \cup CategoricalVariants(MiddleRow)
        \cup NumericVariants(MiddleRow)
        \cup BooleanVariants(MiddleRow)

SampleFrames ==
    UNION {[1..n -> SampleRows] : n \in 0..MaxRows}

\* Every categorical field in its vocabulary, every number in its domain.
ValidRow(row) ==
    /\ row.device_type \in DeviceTypes
    /\ row.data_type \in DataTypes
    /\ row.location_type \in LocationTypes
    /\ row.access_pattern \in AccessPatterns
    /\ row.data_sharing \in DataSharings
    /\ row.compliance_status \in ComplianceStatuses
    /\ row.network_security_level \in 1..5
    /\ row.data_sensitivity \in 1..5
    /\ row.encryption_level \in 1..3
    /\ row.security_incidents \in 0..4
    /\ row.last_audit_days \in 1..89

(***************************************************************************)
(* The risk scoring heuristic as a state machine.                          *)
(***************************************************************************)
NoScore == [status |-> "none", labels |-> <<>>]

ScoreStart ==
    /\ df \in SampleFrames
    /\ scoreOut = NoScore
    /\ scoreCalls = 0

\* The heuristic not in use: an empty frame and no call.
ScoreIdle ==
    /\ df = <<>>
    /\ scoreOut = NoScore
    /\ scoreCalls = 0

\* calculate_risk_level(df): the first row whose lookup fails raises KeyError
\* and no list is returned; otherwise the list of labels is returned.
CalculateRiskLevel ==
    /\ scoreCalls < MaxCalls
    /\ scoreCalls' = scoreCalls + 1
    /\ scoreOut' =
          IF \E i \in 1..Len(df) : RowKeyError(df[i])
          THEN [status |-> "KeyError", labels |-> <<>>]
          ELSE [status |-> "ok", labels |-> LabelRows(df)]
    /\ UNCHANGED df
    /\ UNCHANGED <<clfVars, preVars, kbVars, apiVars>>

(***************************************************************************)
(* sklearn.preprocessing.LabelEncoder, as both components use it.          *)
(***************************************************************************)
\* The category strings of the model in ascending order of Python's string
\* comparison, which np.unique / sorted use.
StrOrder ==
    <<"actuator", "audio", "burst", "camera", "compliant", "external",
      "gateway", "health", "humidity", "identification", "internal",
      "irregular", "location", "non_compliant", "none",
      "partially_compliant", "pressure", "private_space", "public_space",
      "regular", "restricted", "semi_public", "sensor", "temperature",
      "unlisted", "video", "wearable">>

\* The distinct values of S as an ascending sequence (LabelEncoder.classes_).
SortedSeq(S) == SelectSeq(StrOrder, LAMBDA v : v \in S)

UnfittedEncoder == [fitted |-> FALSE, classes |-> <<>>]

\* LabelEncoder.fit(values).
FitEncoder(values) == [fitted |-> TRUE, classes |-> SortedSeq(values)]

SeqRange(q) == {q[i] : i \in 1..Len(q)}

\* LabelEncoder.transform accepts v: the encoder is fitted and v is a class.
Encodable(enc, v) == enc.fitted /\ v \in SeqRange(enc.classes)

\* LabelEncoder.transform([v])[0]: the 0-based position of v in classes_.
\* transform raises before it would code a value that is no class; -1 stands
\* for that absent code.
Code(enc, v) ==
    LET at == {i \in 1..Len(enc.classes) : enc.classes[i] = v}
    IN  IF at = {} THEN -1 ELSE (CHOOSE i \in at : TRUE) - 1

(***************************************************************************)
(* PrivacyRiskClassifier.                                                  *)
(***************************************************************************)
\* The keys of self.label_encoders, in insertion (iteration) order.
ClfFeatures == <<"device_type", "data_type", "location_type">>

\* dict.get(key, default).
Get(sample, key, default) ==
    IF key \in DOMAIN sample THEN sample[key] ELSE default

\* Lines 51-53: the encoders are refitted, feature by feature, on the values
\* of the batch X; sample[feature] raises KeyError at the first feature some
\* sample lacks, the encoders of the features before it already refitted.
Lacking(X) ==
    {k \in 1..Len(ClfFeatures) :
        \E i \in 1..Len(X) : ClfFeatures[k] \notin DOMAIN X[i]}

FirstLacking(X) ==
    LET lacking == Lacking(X)
    IN  IF lacking = {} THEN Len(ClfFeatures) + 1
        ELSE CHOOSE k \in lacking : \A j \in lacking : k <= j

\* The features whose encoder is refitted before the loop ends or raises.
Refitted(X) == {ClfFeatures[k] : k \in 1..(FirstLacking(X) - 1)}

\* Mutant of RefitEncoders: the encoders fitted by train are kept once fitted.
KeepFittedEncoders(encs, X) ==
    LET refitted == Refitted(X)
    IN  [f \in DOMAIN encs |->
            IF f \in refitted /\ ~encs[f].fitted
            THEN FitEncoder({X[i][f] : i \in 1..Len(X)})
            ELSE encs[f]]

RefitEncoders(encs, X) ==
    LET refitted == Refitted(X)
    IN  [f \in DOMAIN encs |->
            IF f \in refitted
            THEN FitEncoder({X[i][f] : i \in 1..Len(X)})
            ELSE encs[f]]

\* Lines 57-74: one encoded sample.
EncodeSample(encs, sample) ==
    <<Code(encs["device_type"], sample["device_type"]),
      Code(encs["data_type"], sample["data_type"]),
      Code(encs["location_type"], sample["location_type"]),
      Get(sample, "access_frequency", 0),
      IF Get(sample, "user_consent", FALSE) THEN 1 ELSE 0,
      Get(sample, "network_security_level", 0)>>

\* _encode_features(X): the encoders it leaves behind, how it ends, and the
\* encoded matrix when it returns.
EncodeFeatures(X) ==
    LET encs == RefitEncoders(clfEncoders, X)
    IN  IF Lacking(X) # {}
        THEN [status |-> "KeyError", encoders |-> encs, encoded |-> <<>>]
        ELSE IF \E i \in 1..Len(X) : \E k \in 1..Len(ClfFeatures) :
                    ClfFeatures[k] \notin DOMAIN X[i]
        THEN [status |-> "ValueError: Missing required feature",
              encoders |-> encs, encoded |-> <<>>]
        ELSE IF \E i \in 1..Len(X) : \E k \in 1..Len(ClfFeatures) :
                    ~Encodable(encs[ClfFeatures[k]], X[i][ClfFeatures[k]])
        THEN [status |-> "ValueError", encoders |-> encs, encoded |-> <<>>]
        ELSE [status |-> "ok", encoders |-> encs,
              encoded |-> [i \in 1..Len(X) |-> EncodeSample(encs, X[i])]]

(***************************************************************************)
(* sklearn.ensemble.RandomForestClassifier, abstracted: a fitted forest is *)
(* a deterministic function of its training matrix and labels.  It votes   *)
(* with the training rows nearest to the encoded sample.                   *)
(***************************************************************************)
Untrained == [trained |-> FALSE, X |-> <<>>, y |-> <<>>]

Abs(a) == IF a >= 0 THEN a ELSE -a

\* The sum of f[1] .. f[n].
RECURSIVE SumTo(_, _)
SumTo(f, n) == IF n = 0 THEN 0 ELSE f[n] + SumTo(f, n - 1)

Distance(a, b) == SumTo([k \in 1..Len(a) |-> Abs(a[k] - b[k])], Len(a))

Nearest(model, x) ==
    {i \in 1..Len(model.X) :
        \A j \in 1..Len(model.X) :
            Distance(model.X[i], x) <= Distance(model.X[j], x)}

\* classifier.classes_: the distinct training labels, ascending.
RECURSIVE AscendingSeq(_)
AscendingSeq(S) ==
    IF S = {} THEN <<>>
    ELSE LET m == CHOOSE x \in S : \A y \in S : x <= y
         IN  <<m>> \o AscendingSeq(S \ {m})

Classes(model) == AscendingSeq(SeqRange(model.y))

\* classifier.predict_proba on one row: per class of classes_, the share of
\* votes as <<votes, voters>>.
ForestProba(model, x) ==
    LET near == Nearest(model, x)
        cls == Classes(model)
    IN  [c \in 1..Len(cls) |->
            <<Cardinality({i \in near : model.y[i] = cls[c]}),
              Cardinality(near)>>]

\* Mutant of ForestPredict: the class at the first smallest share.
ForestPredictLeast(model, x) ==
    LET p == ForestProba(model, x)
        cls == Classes(model)
        least == CHOOSE c \in 1..Len(cls) :
                     /\ \A d \in 1..Len(cls) : p[c][1] <= p[d][1]
                     /\ \A d \in 1..(c - 1) : p[c][1] < p[d][1]
    IN  cls[least]

\* classifier.predict on one row: the class at the first largest share.
ForestPredict(model, x) ==
    LET p == ForestProba(model, x)
        cls == Classes(model)
        best == CHOOSE c \in 1..Len(cls) :
                    /\ \A d \in 1..Len(cls) : p[d][1] <= p[c][1]
                    /\ \A d \in 1..(c - 1) : p[d][1] < p[c][1]
    IN  cls[best]

(***************************************************************************)
(* Records and batches handed to the classifier.                           *)
(***************************************************************************)
Sample(dev, dat, loc, freq, consent, level) ==
    [device_type |-> dev, data_type |-> dat, location_type |-> loc,
     access_frequency |-> freq, user_consent |-> consent,
     network_security_level |-> level]

Without(sample, key) == [k \in DOMAIN sample \ {key} |-> sample[k]]

CameraSample == Sample("camera", "video", "public_space", 10, TRUE, 3)

SensorSample == Sample("sensor", "temperature", "private_space", 5, FALSE, 2)

WearableSample == Sample("wearable", "health", "restricted", 15, FALSE, 1)

\* Labelled records a training set is drawn from.
TrainSamples == {<<CameraSample, 4>>, <<SensorSample, 2>>}

\* Records a prediction batch is drawn from: complete ones, and ones lacking
\* one key.
PredictSamples ==
    {CameraSample, WearableSample,
     Without(CameraSample, "device_type"),
     Without(SensorSample, "location_type"),
     Without(SensorSample, "access_frequency")}

TrainBatches == UNION {[1..n -> TrainSamples] : n \in 1..MaxBatch}

PredictBatches == UNION {[1..n -> PredictSamples] : n \in 1..MaxBatch}

(***************************************************************************)
(* The classifier as a state machine.                                      *)
(***************************************************************************)
NoOutcome == [op |-> "none", status |-> "none", value |-> <<>>]

\* No file at model_path.
NoModelFile == [exists |-> FALSE]

\* The threads, and a thread that is not inside a call.
Callers == 1..MaxCallers

NoCall == [pc |-> "idle", op |-> "none", X |-> <<>>, k |-> 0,
           encoded |-> <<>>, out |-> NoOutcome]

\* __init__: three unfitted encoders and an unfitted forest.
ClfNew ==
    /\ clfEncoders = [f \in SeqRange(ClfFeatures) |-> UnfittedEncoder]
    /\ clfModel = Untrained
    /\ clfOut = NoOutcome
    /\ clfFile = NoModelFile
    /\ clfTrainVocab = [f \in SeqRange(ClfFeatures) |-> {}]
    /\ clfCalls = [c \in Callers |-> NoCall]

\* train(X, y), batch[i] = <<X[i], y[i]>>.
Train(batch) ==
    LET X == [i \in 1..Len(batch) |-> batch[i][1]]
        y == [i \in 1..Len(batch) |-> batch[i][2]]
        e == EncodeFeatures(X)
    IN  /\ clfEncoders' = e.encoders
        /\ IF e.status = "ok"
           THEN /\ clfModel' = [trained |-> TRUE, X |-> e.encoded, y |-> y]
                /\ clfTrainVocab' =
                      [f \in SeqRange(ClfFeatures) |->
                          {X[i][f] : i \in 1..Len(X)}]
           ELSE UNCHANGED <<clfModel, clfTrainVocab>>
        /\ clfOut' = [op |-> "train", status |-> e.status, value |-> <<>>]
        /\ UNCHANGED <<clfFile, clfCalls>>
        /\ UNCHANGED <<scoreVars, preVars, kbVars, apiVars>>

\* Lines 99 and 111: the forest asked about an encoded matrix; an unfitted
\* forest raises NotFittedError.
ForestOutcome(op, encoded) ==
    IF ~clfModel.trained
    THEN [op |-> op, status |-> "NotFittedError", value |-> <<>>]
    ELSE [op |-> op, status |-> "ok",
          value |-> [i \in 1..Len(encoded) |->
                       IF op = "predict"
                       THEN ForestPredict(clfModel, encoded[i])
                       ELSE ForestProba(clfModel, encoded[i])]]

\* The shared course of predict and predict_proba: encode, then ask the forest.
Inference(op, X) ==
    LET e == EncodeFeatures(X)
    IN  /\ clfEncoders' = e.encoders
        /\ clfOut' =
              IF e.status # "ok"
              THEN [op |-> op, status |-> e.status, value |-> <<>>]
              ELSE ForestOutcome(op, e.encoded)
        /\ UNCHANGED <<clfModel, clfFile, clfTrainVocab, clfCalls>>
        /\ UNCHANGED <<scoreVars, preVars, kbVars, apiVars>>

Predict(X) == Inference("predict", X)

PredictProba(X) == Inference("predict_proba", X)

\* Lines 119-123: the dictionary joblib.dump writes; vocab is the history
\* clfTrainVocab of the forest written.
DumpModel(classifier, label_encoders, vocab) ==
    [exists |-> TRUE, classifier |-> classifier,
     label_encoders |-> label_encoders, vocab |-> vocab]

\* save_model().
SaveModel ==
    /\ clfFile' = DumpModel(clfModel, clfEncoders, clfTrainVocab)
    /\ clfOut' = [op |-> "save_model", status |-> "ok", value |-> <<>>]
    /\ UNCHANGED <<clfEncoders, clfModel, clfTrainVocab, clfCalls>>
    /\ UNCHANGED <<scoreVars, preVars, kbVars, apiVars>>

\* Mutant of LoadModelResult: a missing file is passed over in silence.
LoadModelResultSilent(classifier, label_encoders, file) ==
    IF ~file.exists
    THEN [status |-> "ok", classifier |-> classifier,
          label_encoders |-> label_encoders]
    ELSE [status |-> "ok", classifier |-> file.classifier,
          label_encoders |-> file.label_encoders]

\* Lines 131-141: FileNotFoundError, logged and raised again, when there is
\* no file; otherwise both attributes are set from the file.
LoadModelResult(classifier, label_encoders, file) ==
    IF ~file.exists
    THEN [status |-> "FileNotFoundError", classifier |-> classifier,
          label_encoders |-> label_encoders]
    ELSE [status |-> "ok", classifier |-> file.classifier,
          label_encoders |-> file.label_encoders]

\* load_model().
LoadModel ==
    LET r == LoadModelResult(clfModel, clfEncoders, clfFile)
    IN  /\ clfModel' = r.classifier
        /\ clfEncoders' = r.label_encoders
        /\ clfOut' = [op |-> "load_model", status |-> r.status, value |-> <<>>]
        /\ clfTrainVocab' =
              IF clfFile.exists THEN clfFile.vocab ELSE clfTrainVocab
        /\ UNCHANGED <<clfFile, clfCalls>>
        /\ UNCHANGED <<scoreVars, preVars, kbVars, apiVars>>

\* The training set of the module's own example.
ExampleBatch == <<<<CameraSample, 4>>, <<SensorSample, 2>>>>

(***************************************************************************)
(* predict and predict_proba called from several threads on one classifier.*)
(* The class takes no lock, so the threads' steps through _encode_features *)
(* interleave: one step per encoder fitted (lines 51-53), one per sample   *)
(* encoded (lines 57-74), the forest asked with the last sample.           *)
(***************************************************************************)
ConcurrentBatches ==
    {<<CameraSample>>, <<SensorSample>>, <<CameraSample, SensorSample>>,
     <<Without(SensorSample, "location_type")>>}

\* A thread enters predict(X) or predict_proba(X).
CallBegin(c, op, X) ==
    /\ clfCalls[c].pc = "idle"
    /\ clfCalls' = [clfCalls EXCEPT ![c] =
                       [pc |-> "fit", op |-> op, X |-> X, k |-> 1,
                        encoded |-> <<>>, out |-> NoOutcome]]
    /\ UNCHANGED <<clfEncoders, clfModel, clfOut, clfFile, clfTrainVocab>>
    /\ UNCHANGED <<scoreVars, preVars, kbVars, apiVars>>

\* Lines 51-53, one turn of the loop: the encoder of the next feature is
\* fitted on the values of the thread's own batch; KeyError ends the call
\* when a sample lacks the feature.
FitStep(c) ==
    LET call == clfCalls[c]
        f == ClfFeatures[call.k]
    IN  /\ call.pc = "fit"
        /\ IF \E i \in 1..Len(call.X) : f \notin DOMAIN call.X[i]
           THEN /\ clfCalls' = [clfCalls EXCEPT ![c].pc = "done",
                                   ![c].out = [op |-> call.op,
                                               status |-> "KeyError",
                                               value |-> <<>>]]
                /\ UNCHANGED clfEncoders
           ELSE /\ clfEncoders' =
                      [clfEncoders EXCEPT ![f] =
                          FitEncoder({call.X[i][f] : i \in 1..Len(call.X)})]
                /\ clfCalls' = [clfCalls EXCEPT ![c].k = call.k + 1,
                                   ![c].pc = IF call.k = Len(ClfFeatures)
                                             THEN "encode" ELSE "fit"]
        /\ UNCHANGED <<clfModel, clfOut, clfFile, clfTrainVocab>>
        /\ UNCHANGED <<scoreVars, preVars, kbVars, apiVars>>

\* Lines 57-74, one turn of the loop over the samples, with the encoders as
\* they are at that moment: transform raises ValueError on a value that is
\* not in classes_; after the last sample the forest is asked (lines 99, 111).
EncodeStep(c) ==
    LET call == clfCalls[c]
        sample == call.X[Len(call.encoded) + 1]
        encoded == Append(call.encoded, EncodeSample(clfEncoders, sample))
    IN  /\ call.pc = "encode"
        /\ IF \E k \in 1..Len(ClfFeatures) :
                  ~Encodable(clfEncoders[ClfFeatures[k]], sample[ClfFeatures[k]])
           THEN clfCalls' = [clfCalls EXCEPT ![c].pc = "done",
                               ![c].out = [op |-> call.op,
                                           status |-> "ValueError",
                                           value |-> <<>>]]
           ELSE IF Len(encoded) < Len(call.X)
           THEN clfCalls' = [clfCalls EXCEPT ![c].encoded = encoded]
           ELSE clfCalls' = [clfCalls EXCEPT ![c].pc = "done",
                               ![c].encoded = encoded,
                               ![c].out = ForestOutcome(call.op, encoded)]
        /\ UNCHANGED <<clfEncoders, clfModel, clfOut, clfFile, clfTrainVocab>>
        /\ UNCHANGED <<scoreVars, preVars, kbVars, apiVars>>

\* What the same call returns when no other call runs beside it.
AloneOutcome(op, X) ==
    LET e == EncodeFeatures(X)
    IN  IF e.status # "ok"
        THEN [op |-> op, status |-> e.status, value |-> <<>>]
        ELSE ForestOutcome(op, e.encoded)
(***************************************************************************)
(* DataPreprocessor: the column lists and the data frames.                 *)
(***************************************************************************)
\* _encode_categorical_features.categorical_columns, in order.
CategoricalColumns ==
    <<"device_type", "data_type", "location_type", "access_pattern",
      "data_sharing", "compliance_status">>

\* _scale_numerical_features.numerical_columns, in order.
NumericalColumns ==
    <<"access_frequency", "network_security_level", "data_sensitivity",
      "encryption_level", "retention_period", "data_volume",
      "last_audit_days", "storage_duration", "security_incidents">>

\* _convert_boolean_features.boolean_columns, in order.
BooleanColumns ==
    <<"user_consent", "data_anonymization", "data_pseudonymization",
      "data_minimization", "purpose_limitation",
      "privacy_impact_assessment", "data_protection_officer">>

TargetColumn == "risk_level"

\* The columns of the generated dataset, in the order of generate_device_data
\* (without the device_id), the label last.
DatasetColumns ==
    <<"device_type", "data_type", "location_type", "access_frequency",
      "user_consent", "network_security_level", "data_sensitivity",
      "encryption_level", "retention_period", "data_volume",
      "access_pattern", "last_audit_days", "data_anonymization",
      "data_pseudonymization", "data_minimization", "purpose_limitation",
      "storage_duration", "data_sharing", "compliance_status",
      "security_incidents", "privacy_impact_assessment",
      "data_protection_officer", "risk_level">>

\* A dataset row: a scored row, the four numeric fields the heuristic does
\* not read, and its label.
DatasetRow(row, freq, retention, volume, duration) ==
    row @@ [access_frequency |-> freq, retention_period |-> retention,
            data_volume |-> volume, storage_duration |-> duration,
            risk_level |-> RiskLevel(row)]

\* A data frame: its column labels in order, and its rows.
Frame(columns, rows) == [columns |-> columns, rows |-> rows]

HasColumn(frame, col) == col \in SeqRange(frame.columns)

HasColumns(frame, cols) == \A k \in 1..Len(cols) : HasColumn(frame, cols[k])

\* df[col]: the values of one column.
Column(frame, col) == {frame.rows[i][col] : i \in 1..Len(frame.rows)}

\* The frame without one column.
DropColumn(frame, col) ==
    Frame(SelectSeq(frame.columns, LAMBDA c : c # col),
          [i \in 1..Len(frame.rows) |->
              [c \in DOMAIN frame.rows[i] \ {col} |-> frame.rows[i][c]]])

WorstDatasetRow == DatasetRow(ScenarioA, 99, 364, 999, 364)

SafestDatasetRow == DatasetRow(SafestRow, 1, 1, 1, 1)

MiddleDatasetRow == DatasetRow(MiddleRow, 50, 30, 100, 90)

RiskiestDatasetRow == DatasetRow(RiskiestRow, 99, 364, 999, 364)

\* Corpora handed to preprocess_data.
CorpusA == Frame(DatasetColumns, <<WorstDatasetRow, SafestDatasetRow>>)

CorpusB == Frame(DatasetColumns, <<MiddleDatasetRow, RiskiestDatasetRow>>)

\* A single row: every numeric column has zero variance.
CorpusOneRow == Frame(DatasetColumns, <<WorstDatasetRow>>)

EmptyCorpus == Frame(DatasetColumns, <<>>)

\* A corpus in which a declared field is absent.
CorpusLackingColumn == DropColumn(CorpusA, "data_sharing")

\* The frame with the device_id column generate_device_data puts first.
WithDeviceId(frame) ==
    Frame(<<"device_id">> \o frame.columns,
          [i \in 1..Len(frame.rows) |->
              frame.rows[i] @@ [device_id |-> i - 1]])

\* The dataset as generate_device_data writes it, device_id included.
CorpusWithDeviceId == WithDeviceId(CorpusA)

\* A corpus without the label column.
CorpusLackingTarget == DropColumn(CorpusA, TargetColumn)

Corpora ==
    {CorpusA, CorpusB, CorpusOneRow, EmptyCorpus, CorpusLackingColumn,
     CorpusWithDeviceId, CorpusLackingTarget}

\* Frames handed to preprocess_new_data.
NewFrames ==
    {Frame(DatasetColumns, <<WorstDatasetRow>>),
     Frame(DatasetColumns, <<SafestDatasetRow, WorstDatasetRow>>),
     Frame(DatasetColumns, <<MiddleDatasetRow>>),
     Frame(DatasetColumns, <<WorstDatasetRow, RiskiestDatasetRow>>),
     DropColumn(Frame(DatasetColumns, <<WorstDatasetRow>>), "risk_level"),
     WithDeviceId(Frame(DatasetColumns, <<SafestDatasetRow>>))}

(***************************************************************************)
(* sklearn.preprocessing.StandardScaler, in exact arithmetic: the fitted   *)
(* statistics are the sample count and, per column, the sum and the sum of *)
(* squares, so mean_ = sum / n and var_ = (n * sumsq - sum^2) / n^2.       *)
(***************************************************************************)
UnfittedScaler == [fitted |-> FALSE, n |-> 0, sum |-> <<>>, sumsq |-> <<>>]

\* StandardScaler.fit on the numerical columns of a frame with rows.
FitScaler(frame) ==
    [fitted |-> TRUE,
     n |-> Len(frame.rows),
     sum |-> [c \in SeqRange(NumericalColumns) |->
                 SumTo([i \in 1..Len(frame.rows) |-> frame.rows[i][c]],
                       Len(frame.rows))],
     sumsq |-> [c \in SeqRange(NumericalColumns) |->
                 SumTo([i \in 1..Len(frame.rows) |->
                           frame.rows[i][c] * frame.rows[i][c]],
                       Len(frame.rows))]]

\* n^2 * var_ of one column.
Spread(scaler, col) ==
    scaler.n * scaler.sumsq[col] - scaler.sum[col] * scaler.sum[col]

\* Mutant of Standardize: a zero standard deviation is not replaced by 1.
StandardizeUnguarded(scaler, col, v) ==
    <<scaler.n * v - scaler.sum[col], Spread(scaler, col)>>

\* StandardScaler.transform of one value: (v - mean_) / scale_, where scale_
\* is sqrt(var_), or 1 when var_ is 0.  The value is a / sqrt(r), returned as
\* <<a, r>>.
Standardize(scaler, col, v) ==
    <<scaler.n * v - scaler.sum[col],
      IF Spread(scaler, col) = 0 THEN scaler.n * scaler.n
      ELSE Spread(scaler, col)>>

(***************************************************************************)
(* DataPreprocessor: the operations.                                       *)
(***************************************************************************)
\* __init__.
NewPreprocessor ==
    [scaler |-> UnfittedScaler, label_encoders |-> <<>>,
     feature_columns |-> <<>>, target_column |-> TargetColumn]

\* dict assignment d[key] = value.
Put(d, key, value) ==
    [k \in DOMAIN d \cup {key} |-> IF k = key THEN value ELSE d[k]]

\* Lines 32-36, from the k-th categorical column on: an encoder is created
\* and fitted only for a column that has none; every column is then
\* transformed with the encoder it has.  Returns how the loop ends and the
\* encoders it leaves behind.
RECURSIVE EncodeCategorical(_, _, _)
EncodeCategorical(encs, frame, k) ==
    IF k > Len(CategoricalColumns) THEN [status |-> "ok", encoders |-> encs]
    ELSE LET col == CategoricalColumns[k]
         IN  IF col \notin DOMAIN encs
             THEN IF ~HasColumn(frame, col)
                  THEN [status |-> "KeyError",
                        encoders |-> Put(encs, col, UnfittedEncoder)]
                  ELSE EncodeCategorical(
                           Put(encs, col, FitEncoder(Column(frame, col))),
                           frame, k + 1)
             ELSE IF ~HasColumn(frame, col)
                  THEN [status |-> "KeyError", encoders |-> encs]
                  ELSE IF ~encs[col].fitted
                  THEN [status |-> "NotFittedError", encoders |-> encs]
                  ELSE IF \E v \in Column(frame, col) : ~Encodable(encs[col], v)
                  THEN [status |-> "ValueError", encoders |-> encs]
                  ELSE EncodeCategorical(encs, frame, k + 1)

\* The columns preprocess_data keeps as features: all but the target.
FeatureColumns(frame, target) == SelectSeq(frame.columns, LAMBDA c : c # target)

\* One cell of the processed frame.
Cell(p, row, col) ==
    IF col \in SeqRange(BooleanColumns) THEN (IF row[col] THEN 1 ELSE 0)
    ELSE IF col \in DOMAIN p.label_encoders
         THEN Code(p.label_encoders[col], row[col])
    ELSE IF col \in SeqRange(NumericalColumns)
         THEN Standardize(p.scaler, col, row[col])
    ELSE row[col]

\* df_processed[self.feature_columns].values.
Matrix(p, frame) ==
    [i \in 1..Len(frame.rows) |->
        [k \in 1..Len(p.feature_columns) |->
            Cell(p, frame.rows[i], p.feature_columns[k])]]

\* preprocess_data(df) on an object in state p: how the call ends, the state
\* it leaves the object in, and the (X, y) it returns.
FitResult(p, frame) ==
    LET enc == EncodeCategorical(p.label_encoders, frame, 1)
        p1 == [p EXCEPT !.label_encoders = enc.encoders]
        p2 == [p1 EXCEPT !.scaler = FitScaler(frame)]
        p3 == [p2 EXCEPT !.feature_columns = FeatureColumns(frame, p.target_column)]
        Fail(status, state) ==
            [status |-> status, state |-> state, X |-> <<>>, y |-> <<>>]
    IN  IF ~HasColumns(frame, BooleanColumns) THEN Fail("KeyError", p)
        ELSE IF enc.status # "ok" THEN Fail(enc.status, p1)
        ELSE IF ~HasColumns(frame, NumericalColumns) THEN Fail("KeyError", p1)
        ELSE IF Len(frame.rows) = 0
             THEN Fail("ValueError", [p1 EXCEPT !.scaler = UnfittedScaler])
        ELSE IF ~HasColumn(frame, p.target_column) THEN Fail("KeyError", p3)
        ELSE [status |-> "ok", state |-> p3, X |-> Matrix(p3, frame),
              y |-> [i \in 1..Len(frame.rows) |-> frame.rows[i][p.target_column]]]

\* The first failing step of lines 107-108, over the encoders in the order
\* they were inserted.
RECURSIVE TransformCategorical(_, _, _)
TransformCategorical(encs, frame, k) ==
    IF k > Len(CategoricalColumns) THEN "ok"
    ELSE LET col == CategoricalColumns[k]
         IN  IF col \notin DOMAIN encs
             THEN TransformCategorical(encs, frame, k + 1)
             ELSE IF ~HasColumn(frame, col) THEN "KeyError"
             ELSE IF ~encs[col].fitted THEN "NotFittedError"
             ELSE IF \E v \in Column(frame, col) : ~Encodable(encs[col], v)
             THEN "ValueError"
             ELSE TransformCategorical(encs, frame, k + 1)

\* Mutant of TransformStatus: the encoders are not consulted, an unseen value
\* passes.
TransformStatusLenient(p, frame) ==
    IF DOMAIN p.label_encoders = {} \/ p.feature_columns = <<>>
    THEN "ValueError: Preprocessor must be fitted with training data first"
    ELSE IF ~HasColumns(frame, BooleanColumns) THEN "KeyError"
    ELSE IF \E k \in 1..Len(CategoricalColumns) :
                /\ CategoricalColumns[k] \in DOMAIN p.label_encoders
                /\ ~HasColumn(frame, CategoricalColumns[k]) THEN "KeyError"
    ELSE IF ~HasColumns(frame, NumericalColumns) THEN "KeyError"
    ELSE IF ~p.scaler.fitted THEN "NotFittedError"
    ELSE IF Len(frame.rows) = 0 THEN "ValueError"
    ELSE IF ~HasColumns(frame, p.feature_columns) THEN "KeyError"
    ELSE "ok"

\* preprocess_new_data(df) on an object in state p: how the call ends.
TransformStatus(p, frame) ==
    IF DOMAIN p.label_encoders = {} \/ p.feature_columns = <<>>
    THEN "ValueError: Preprocessor must be fitted with training data first"
    ELSE IF ~HasColumns(frame, BooleanColumns) THEN "KeyError"
    ELSE IF TransformCategorical(p.label_encoders, frame, 1) # "ok"
    THEN TransformCategorical(p.label_encoders, frame, 1)
    ELSE IF ~HasColumns(frame, NumericalColumns) THEN "KeyError"
    ELSE IF ~p.scaler.fitted THEN "NotFittedError"
    ELSE IF Len(frame.rows) = 0 THEN "ValueError"
    ELSE IF ~HasColumns(frame, p.feature_columns) THEN "KeyError"
    ELSE "ok"

\* Mutant of TransformResult: the scaler is fitted again on the new frame
\* (fit_transform in place of transform).
TransformResultRefitting(p, frame) ==
    LET status == TransformStatus(p, frame)
    IN  [status |-> status,
         X |-> IF status = "ok" THEN Matrix(p, frame) ELSE <<>>,
         state |-> IF status = "ok"
                   THEN [p EXCEPT !.scaler = FitScaler(frame)] ELSE p,
         df |-> frame]

\* preprocess_new_data(df): the matrix it returns, none when it raises; the
\* state it leaves the object in (lines 107-108 and 122-124 only call
\* transform, nothing is assigned to self); and the caller's frame after the
\* call (line 104 works on the copy _convert_boolean_features makes).
TransformResult(p, frame) ==
    LET status == TransformStatus(p, frame)
    IN  [status |-> status,
         X |-> IF status = "ok" THEN Matrix(p, frame) ELSE <<>>,
         state |-> p,
         df |-> frame]

NoFile == [exists |-> FALSE]

\* Mutant of Dump: the scaler is written as constructed, not as fitted.
DumpFreshScaler(p) ==
    [exists |-> TRUE, scaler |-> UnfittedScaler,
     label_encoders |-> p.label_encoders,
     feature_columns |-> p.feature_columns, target_column |-> p.target_column]

\* Lines 130-136: the dictionary joblib.dump writes.
Dump(p) ==
    [exists |-> TRUE, scaler |-> p.scaler, label_encoders |-> p.label_encoders,
     feature_columns |-> p.feature_columns, target_column |-> p.target_column]

\* Lines 143-147: the attributes set from the dictionary joblib.load returns.
Restore(file) ==
    [scaler |-> file.scaler, label_encoders |-> file.label_encoders,
     feature_columns |-> file.feature_columns,
     target_column |-> file.target_column]

(***************************************************************************)
(* The transformer as a state machine: two DataPreprocessor objects, the   *)
(* one prepare_training_data creates and the one prepare_test_data         *)
(* creates, sharing the file at model_path.                                *)
(***************************************************************************)
Preprocessors == {"training", "serving"}

\* columns: the labels of the columns of the matrix X, in order.
NoPreOutcome ==
    [op |-> "none", by |-> "none", status |-> "none", X |-> <<>>, y |-> <<>>,
     columns |-> <<>>]

\* The model path, as a key next to the objects.
ModelPath == "model_path"

PreNew ==
    /\ pre = [i \in Preprocessors |-> NewPreprocessor]
    /\ preFile = NoFile
    /\ preOut = NoPreOutcome
    /\ preSaved = NewPreprocessor
    /\ preCalls = 0
    /\ preFitColumns = [i \in Preprocessors \cup {ModelPath} |-> <<>>]

\* preprocess_data(df) on object i.
PreprocessData(i, frame) ==
    LET r == FitResult(pre[i], frame)
    IN  /\ preCalls < MaxPreCalls
        /\ preCalls' = preCalls + 1
        /\ pre' = [pre EXCEPT ![i] = r.state]
        /\ preOut' = [op |-> "fit", by |-> i, status |-> r.status,
                      X |-> r.X, y |-> r.y,
                      columns |-> IF r.status = "ok"
                                  THEN r.state.feature_columns ELSE <<>>]
        /\ preFitColumns' =
              IF r.status = "ok"
              THEN [preFitColumns EXCEPT ![i] = r.state.feature_columns]
              ELSE preFitColumns
        /\ UNCHANGED <<preFile, preSaved>>
        /\ UNCHANGED <<scoreVars, clfVars, kbVars, apiVars>>

\* preprocess_new_data(df) on object i.
PreprocessNewData(i, frame) ==
    LET r == TransformResult(pre[i], frame)
    IN  /\ preCalls < MaxPreCalls
        /\ preCalls' = preCalls + 1
        /\ preOut' = [op |-> "transform", by |-> i, status |-> r.status,
                      X |-> r.X, y |-> <<>>,
                      columns |-> IF r.status = "ok"
                                  THEN pre[i].feature_columns ELSE <<>>]
        /\ pre' = [pre EXCEPT ![i] = r.state]
        /\ UNCHANGED <<preFile, preSaved, preFitColumns>>
        /\ UNCHANGED <<scoreVars, clfVars, kbVars, apiVars>>

\* save_preprocessor() on object i.
SavePreprocessor(i) ==
    /\ preCalls < MaxPreCalls
    /\ preCalls' = preCalls + 1
    /\ preFile' = Dump(pre[i])
    /\ preSaved' = pre[i]
    /\ preOut' = [op |-> "save", by |-> i, status |-> "ok", X |-> <<>>, y |-> <<>>,
                  columns |-> <<>>]
    /\ preFitColumns' = [preFitColumns EXCEPT ![ModelPath] = preFitColumns[i]]
    /\ UNCHANGED pre
    /\ UNCHANGED <<scoreVars, clfVars, kbVars, apiVars>>

\* Mutant of LoadResult: a missing file is passed over in silence.
LoadResultSilent(p, file) ==
    IF ~file.exists THEN [status |-> "ok", state |-> p]
    ELSE [status |-> "ok", state |-> Restore(file)]

\* Lines 140-147: FileNotFoundError when there is no file at model_path;
\* otherwise the four attributes are set from the file.
LoadResult(p, file) ==
    IF ~file.exists THEN [status |-> "FileNotFoundError", state |-> p]
    ELSE [status |-> "ok", state |-> Restore(file)]

\* load_preprocessor() on object i.
LoadPreprocessor(i) ==
    LET r == LoadResult(pre[i], preFile)
    IN  /\ preCalls < MaxPreCalls
        /\ preCalls' = preCalls + 1
        /\ preOut' = [op |-> "load", by |-> i, status |-> r.status,
                      X |-> <<>>, y |-> <<>>, columns |-> <<>>]
        /\ pre' = [pre EXCEPT ![i] = r.state]
        /\ preFitColumns' =
              IF preFile.exists
              THEN [preFitColumns EXCEPT ![i] = preFitColumns[ModelPath]]
              ELSE preFitColumns
    /\ UNCHANGED <<preFile, preSaved>>
    /\ UNCHANGED <<scoreVars, clfVars, kbVars, apiVars>>

(***************************************************************************)
(* PrivacyOntologyHandler, as api/main.py calls it.                        *)
(***************************************************************************)
\* The methods the class PrivacyOntologyHandler defines.
HandlerMethods ==
    {"get_personal_data_types", "get_risk_levels",
     "get_mitigation_strategies", "get_risk", "get_risks", "add_policy",
     "get_policy", "add_personal_data", "add_risk", "save_ontology"}

\* An individual without the description attribute.
NoDescription == "(no description)"

\* MitigationStrategy individuals the ontology file may hold.
StrategyIndividuals ==
    [riskLevel : RiskLevels,
     description : {"Encrypt data at rest", "Review access rights",
                    NoDescription}]

Stores == UNION {[1..n -> StrategyIndividuals] : n \in 0..MaxStrategies}

\* Devices of devices_db handed to the handler.
Devices ==
    {[device_type |-> "camera", location_type |-> "public_space",
      data_types |-> <<"video">>, network_security_level |-> 1],
     [device_type |-> "sensor", location_type |-> "private_space",
      data_types |-> <<"temperature">>, network_security_level |-> 5]}

\* Risk levels handed to get_mitigation_strategies: 1..5 and both neighbours.
RequestedLevels == 0..6

\* searched: whether the call reached self.ontology.search.
NoKbOutcome ==
    [op |-> "none", status |-> "none", value |-> <<>>, searched |-> FALSE]

KbStart ==
    /\ kbStore \in Stores
    /\ kbOut = NoKbOutcome

\* The handler not in use: an empty store and no call.
KbIdle ==
    /\ kbStore = <<>>
    /\ kbOut = NoKbOutcome

\* Lines 50-56: the descriptions of the strategies of one level, in search
\* order, those without a description skipped.
RECURSIVE Descriptions(_, _)
Descriptions(store, level) ==
    IF store = <<>> THEN <<>>
    ELSE LET first == Head(store)
         IN  (IF first.riskLevel = level /\ first.description # NoDescription
              THEN <<first.description>> ELSE <<>>)
                 \o Descriptions(Tail(store), level)

\* ontology_handler.<method>(...): the attribute lookup raises AttributeError
\* for a name the class does not define; otherwise the method's outcome.
Call(method, outcome) ==
    IF method \notin HandlerMethods
    THEN [op |-> method, status |-> "AttributeError", value |-> <<>>,
          searched |-> FALSE]
    ELSE [op |-> method, status |-> outcome.status, value |-> outcome.value,
          searched |-> outcome.searched]

\* The range check of lines 44-45 admitting level 0.
MitigationStrategiesFromZero(store, risk_level) ==
    IF ~(0 <= risk_level /\ risk_level <= 5)
    THEN [status |-> "ValueError", value |-> <<>>, searched |-> FALSE]
    ELSE [status |-> "ok", value |-> Descriptions(store, risk_level),
          searched |-> TRUE]

\* Lines 44-58: the range check raises before the store is searched; a level
\* in range is searched and its descriptions returned, none included.
MitigationStrategies(store, risk_level) ==
    IF ~(1 <= risk_level /\ risk_level <= 5)
    THEN [status |-> "ValueError", value |-> <<>>, searched |-> FALSE]
    ELSE [status |-> "ok", value |-> Descriptions(store, risk_level),
          searched |-> TRUE]

\* get_mitigation_strategies(risk_level).
GetMitigationStrategies(risk_level) ==
    /\ kbOut' = Call("get_mitigation_strategies",
                     MitigationStrategies(kbStore, risk_level))
    /\ UNCHANGED kbStore
    /\ UNCHANGED <<scoreVars, clfVars, preVars, apiVars>>

\* main.py lines 334-336: ontology_handler.check_compliance(device, consent).
\* The class defines no such method, so there is no outcome to dispatch to.
CheckCompliance(device, consent_given) ==
    /\ kbOut' = Call("check_compliance",
                     [status |-> "ok", value |-> <<>>, searched |-> FALSE])
    /\ UNCHANGED kbStore
    /\ UNCHANGED <<scoreVars, clfVars, preVars, apiVars>>

\* main.py lines 339-341: ontology_handler.analyze_risk_factors(device, consent).
AnalyzeRiskFactors(device, consent_given) ==
    /\ kbOut' = Call("analyze_risk_factors",
                     [status |-> "ok", value |-> <<>>, searched |-> FALSE])
    /\ UNCHANGED kbStore
    /\ UNCHANGED <<scoreVars, clfVars, preVars, apiVars>>

(***************************************************************************)
(* api/main.py: the HTTP endpoints over the in-memory stores.  A uuid4 is  *)
(* a fresh value: the k-th one drawn is k.  0 stands for a string that is  *)
(* no drawn uuid ("invalid_token", "invalid_id").                          *)
(***************************************************************************)
\* Strings a client sends as bearer token or as an id in the path or body.
ClientStrings == 0..MaxIds

\* Ids a client sends to /risks/{risk_id}/resolve: the uuid4 values drawn for
\* users, tokens, devices and policies, and those drawn for risk entries.
RiskIds == 0..(MaxIds + MaxHistory)

\* Form and body values of the requests.
Emails == {"test@example.com", "second@example.com"}

Passwords == {"test_password", "secret"}

\* DeviceCreate.network_security_level is an unconstrained int.
RequestedSecurityLevels == {0, 1, 5, 6}

RetentionPeriods == {30, 60}

\* The id or token a response carries; NoId when it carries none.
NoId == 0

Response(endpoint, status, id) ==
    [endpoint |-> endpoint, status |-> status, id |-> id]

\* Lines 77-80: the empty stores.
ApiNew ==
    /\ users_db = <<>>
    /\ devices_db = <<>>
    /\ policies_db = <<>>
    /\ risk_history = <<>>
    /\ apiIds = 0
    /\ apiOut = Response("none", 0, NoId)
    /\ apiRegistered = <<>>
    /\ apiIssued = {}

\* dict.values().
Values(d) == {d[k] : k \in DOMAIN d}

\* get_current_user, lines 174-178: any key of users_db passes.
Authenticated(token) == token \in DOMAIN users_db

\* Mutant of IoTDeviceValid: the upper bound of the field moved to 6.
IoTDeviceValidUpToSix(network_security_level) ==
    1 <= network_security_level /\ network_security_level <= 6

\* IoTDevice.network_security_level: int = Field(ge=1, le=5); the
\* constructor raises a validation error otherwise.
IoTDeviceValid(network_security_level) ==
    1 <= network_security_level /\ network_security_level <= 5

\* POST /users.  The password of the request is not stored.
CreateUser(email, password) ==
    /\ IF \E u \in Values(users_db) : u.email = email
       THEN /\ apiOut' = Response("create_user", 400, NoId)
            /\ UNCHANGED <<users_db, apiIds, apiRegistered>>
       ELSE /\ apiIds < MaxIds
            /\ apiIds' = apiIds + 1
            /\ users_db' = Put(users_db, apiIds + 1,
                               [id |-> apiIds + 1, email |-> email])
            /\ apiRegistered' = Put(apiRegistered, email, password)
            /\ apiOut' = Response("create_user", 200, apiIds + 1)
    /\ UNCHANGED <<devices_db, policies_db, risk_history, apiIssued>>
    /\ UNCHANGED <<scoreVars, clfVars, preVars, kbVars>>

\* POST /token, lines 430-445: the user is found by email, the password is
\* compared with the literal "test_password", and the token is stored as one
\* more key of users_db.
LoginForAccessToken(username, password) ==
    /\ IF ~\E u \in Values(users_db) : u.email = username
       THEN /\ apiOut' = Response("login_for_access_token", 401, NoId)
            /\ UNCHANGED <<users_db, apiIds, apiIssued>>
       ELSE IF password # "test_password"
       THEN /\ apiOut' = Response("login_for_access_token", 401, NoId)
            /\ UNCHANGED <<users_db, apiIds, apiIssued>>
       ELSE /\ apiIds < MaxIds
            /\ apiIds' = apiIds + 1
            /\ users_db' =
                  Put(users_db, apiIds + 1,
                      CHOOSE u \in Values(users_db) : u.email = username)
            /\ apiIssued' = apiIssued \cup {apiIds + 1}
            /\ apiOut' = Response("login_for_access_token", 200, apiIds + 1)
    /\ UNCHANGED <<devices_db, policies_db, risk_history, apiRegistered>>
    /\ UNCHANGED <<scoreVars, clfVars, preVars, kbVars>>

\* A request the dependency get_current_user refuses: 401, nothing touched.
Refused(endpoint) ==
    /\ apiOut' = Response(endpoint, 401, NoId)
    /\ UNCHANGED <<dbVars, apiIds, apiRegistered, apiIssued>>
    /\ UNCHANGED <<scoreVars, clfVars, preVars, kbVars>>

\* POST /devices, lines 214-232: the validation error of IoTDevice is caught
\* by except Exception and answered 500.  Of the validation of IoTDevice only
\* the bounds of network_security_level are modelled; the other fields are
\* those of one camera.
CreateDevice(token, network_security_level) ==
    IF ~Authenticated(token) THEN Refused("create_device")
    ELSE /\ IF ~IoTDeviceValid(network_security_level)
            THEN /\ apiOut' = Response("create_device", 500, NoId)
                 /\ UNCHANGED <<devices_db, apiIds>>
            ELSE /\ apiIds < MaxIds
                 /\ apiIds' = apiIds + 1
                 /\ devices_db' =
                       Put(devices_db, apiIds + 1,
                           [id |-> apiIds + 1,
                            device_type |-> "camera",
                            data_types |-> <<"video">>,
                            location_type |-> "public_space",
                            network_security_level |-> network_security_level])
                 /\ apiOut' = Response("create_device", 200, apiIds + 1)
         /\ UNCHANGED <<users_db, policies_db, risk_history>>
         /\ UNCHANGED <<apiRegistered, apiIssued>>
         /\ UNCHANGED <<scoreVars, clfVars, preVars, kbVars>>

\* POST /policies.
CreatePolicy(token, retention_period) ==
    IF ~Authenticated(token) THEN Refused("create_policy")
    ELSE /\ apiIds < MaxIds
         /\ apiIds' = apiIds + 1
         /\ policies_db' =
               Put(policies_db, apiIds + 1,
                   [id |-> apiIds + 1, retention_period |-> retention_period])
         /\ apiOut' = Response("create_policy", 200, apiIds + 1)
         /\ UNCHANGED <<users_db, devices_db, risk_history>>
         /\ UNCHANGED <<apiRegistered, apiIssued>>
         /\ UNCHANGED <<scoreVars, clfVars, preVars, kbVars>>

\* GET /policies/{policy_id}: the 404 passes through except HTTPException.
GetPolicy(token, policy_id) ==
    IF ~Authenticated(token) THEN Refused("get_policy")
    ELSE /\ apiOut' = IF policy_id \notin DOMAIN policies_db
                      THEN Response("get_policy", 404, NoId)
                      ELSE Response("get_policy", 200, policy_id)
         /\ UNCHANGED <<dbVars, apiIds, apiRegistered, apiIssued>>
         /\ UNCHANGED <<scoreVars, clfVars, preVars, kbVars>>

\* PUT /policies/{policy_id}.
UpdatePolicy(token, policy_id, retention_period) ==
    IF ~Authenticated(token) THEN Refused("update_policy")
    ELSE /\ IF policy_id \notin DOMAIN policies_db
            THEN /\ apiOut' = Response("update_policy", 404, NoId)
                 /\ UNCHANGED policies_db
            ELSE /\ policies_db' =
                       Put(policies_db, policy_id,
                           [id |-> policy_id,
                            retention_period |-> retention_period])
                 /\ apiOut' = Response("update_policy", 200, policy_id)
         /\ UNCHANGED <<users_db, devices_db, risk_history>>
         /\ UNCHANGED <<apiIds, apiRegistered, apiIssued>>
         /\ UNCHANGED <<scoreVars, clfVars, preVars, kbVars>>

\* Lines 314-324: the record assess_risk hands to the classifier.
InputData(device, user_consent) ==
    <<Sample(device.device_type, device.data_types[1], device.location_type,
             1, user_consent, device.network_security_level)>>

\* Lines 327-341 for a stored device: how the calls on the module's
\* classifier and ontology_handler end, the first exception ending the run;
\* and the label and the mitigations when none is raised.
Assessment(device, user_consent) ==
    LET e == EncodeFeatures(InputData(device, user_consent))
        risk_level == ForestPredict(clfModel, e.encoded[1])
        mitigation == Call("get_mitigation_strategies",
                           MitigationStrategies(kbStore, risk_level))
        compliance == Call("check_compliance",
                           [status |-> "ok", value |-> <<>>,
                            searched |-> FALSE])
        factors == Call("analyze_risk_factors",
                        [status |-> "ok", value |-> <<>>, searched |-> FALSE])
        Raised(status) ==
            [status |-> status, encoders |-> e.encoders, risk_level |-> 0,
             mitigation_suggestions |-> <<>>]
    IN  IF e.status # "ok" THEN Raised(e.status)
        ELSE IF ~clfModel.trained THEN Raised("NotFittedError")
        ELSE IF mitigation.status # "ok" THEN Raised(mitigation.status)
        ELSE IF compliance.status # "ok" THEN Raised(compliance.status)
        ELSE IF factors.status # "ok" THEN Raised(factors.status)
        ELSE [status |-> "ok", encoders |-> e.encoders,
              risk_level |-> risk_level,
              mitigation_suggestions |-> mitigation.value]

\* conftest.py lines 25-65: the wiring of the test suite, where
\* api.main.classifier and api.main.ontology_handler are mocks: predict
\* returns [3], get_mitigation_strategies one strategy, check_compliance and
\* analyze_risk_factors return values; nothing raises and the module's
\* classifier object is not touched.
MockedAssessment(device, user_consent) ==
    [status |-> "ok", encoders |-> clfEncoders, risk_level |-> 3,
     mitigation_suggestions |-> <<"Test mitigation strategy">>]

\* The components api.main holds: those it constructs at lines 70-71, or the
\* mocks the test suite patches in.
Wirings == {"production", "mocked"}

WiredAssessment(wiring, device, user_consent) ==
    IF wiring = "mocked" THEN MockedAssessment(device, user_consent)
    ELSE Assessment(device, user_consent)

\* Mutant of RiskEntry: the entry is stored as already resolved.
RiskEntryResolved(id, device_id, risk_level, mitigation_suggestions) ==
    [id |-> id, device_id |-> device_id, risk_level |-> risk_level,
     mitigation_suggestions |-> mitigation_suggestions,
     resolved |-> TRUE, resolved_by |-> NoId]

\* Lines 345-352: the dictionary appended to risk_history.
RiskEntry(id, device_id, risk_level, mitigation_suggestions) ==
    [id |-> id, device_id |-> device_id, risk_level |-> risk_level,
     mitigation_suggestions |-> mitigation_suggestions,
     resolved |-> FALSE, resolved_by |-> NoId]

\* POST /assess_risk, lines 308-364.  Every exception of the body, the
\* HTTPException(404) of line 311 included, is caught by except Exception
\* and answered 500.  classifier.predict refits the label encoders before
\* the forest is asked.
AssessRiskWired(wiring, token, device_id, user_consent) ==
    IF ~Authenticated(token) THEN Refused("assess_risk")
    ELSE /\ IF device_id \notin DOMAIN devices_db
            THEN /\ apiOut' = Response("assess_risk", 500, NoId)
                 /\ UNCHANGED <<risk_history, apiIds, clfEncoders>>
            ELSE LET a == WiredAssessment(wiring, devices_db[device_id],
                                          user_consent)
                 IN  /\ clfEncoders' = a.encoders
                     /\ IF a.status # "ok"
                        THEN /\ apiOut' = Response("assess_risk", 500, NoId)
                             /\ UNCHANGED <<risk_history, apiIds>>
                        ELSE /\ Len(risk_history) < MaxHistory
                             /\ apiIds' = apiIds + 1
                             /\ risk_history' =
                                   Append(risk_history,
                                          RiskEntry(apiIds + 1, device_id,
                                                    a.risk_level,
                                                    a.mitigation_suggestions))
                             /\ apiOut' = Response("assess_risk", 200, NoId)
         /\ UNCHANGED <<users_db, devices_db, policies_db>>
         /\ UNCHANGED <<apiRegistered, apiIssued>>
         /\ UNCHANGED <<clfModel, clfOut, clfFile, clfTrainVocab, clfCalls>>
         /\ UNCHANGED <<scoreVars, preVars, kbVars>>

\* POST /assess_risk as api.main is constructed.
AssessRisk(token, device_id, user_consent) ==
    AssessRiskWired("production", token, device_id, user_consent)

\* POST /assess_risk under the test suite's mocks.
AssessRiskMocked(token, device_id, user_consent) ==
    AssessRiskWired("mocked", token, device_id, user_consent)

\* GET /risk_history/{device_id}.
GetRiskHistory(token, device_id) ==
    IF ~Authenticated(token) THEN Refused("get_risk_history")
    ELSE /\ apiOut' = IF device_id \notin DOMAIN devices_db
                      THEN Response("get_risk_history", 404, NoId)
                      ELSE Response("get_risk_history", 200, device_id)
         /\ UNCHANGED <<dbVars, apiIds, apiRegistered, apiIssued>>
         /\ UNCHANGED <<scoreVars, clfVars, preVars, kbVars>>

\* PUT /risks/{risk_id}/resolve, lines 389-399: the first entry with the id
\* is marked; the HTTPException(404) of line 396 is caught by except
\* Exception and answered 500.
ResolveRisk(token, risk_id) ==
    IF ~Authenticated(token) THEN Refused("resolve_risk")
    ELSE LET found == {k \in 1..Len(risk_history) :
                          risk_history[k].id = risk_id}
         IN  /\ IF found = {}
                THEN /\ apiOut' = Response("resolve_risk", 500, NoId)
                     /\ UNCHANGED risk_history
                ELSE LET k == CHOOSE j \in found : \A l \in found : j <= l
                     IN  /\ risk_history' =
                               [risk_history EXCEPT
                                   ![k].resolved = TRUE,
                                   ![k].resolved_by = users_db[token].id]
                         /\ apiOut' = Response("resolve_risk", 200, risk_id)
             /\ UNCHANGED <<users_db, devices_db, policies_db>>
             /\ UNCHANGED <<apiIds, apiRegistered, apiIssued>>
             /\ UNCHANGED <<scoreVars, clfVars, preVars, kbVars>>

\* GET /devices.
ListDevices(token) ==
    IF ~Authenticated(token) THEN Refused("list_devices")
    ELSE /\ apiOut' = Response("list_devices", 200, NoId)
         /\ UNCHANGED <<dbVars, apiIds, apiRegistered, apiIssued>>
         /\ UNCHANGED <<scoreVars, clfVars, preVars, kbVars>>

\* GET /health.
HealthCheck ==
    /\ apiOut' = Response("health_check", 200, NoId)
    /\ UNCHANGED <<dbVars, apiIds, apiRegistered, apiIssued>>
    /\ UNCHANGED <<scoreVars, clfVars, preVars, kbVars>>

(***************************************************************************)
(* Specifications, one per component.                                      *)
(***************************************************************************)
ScoreInit == ScoreStart /\ ClfNew /\ PreNew /\ KbIdle /\ ApiNew

ScoreNext == CalculateRiskLevel

ScoreSpec == ScoreInit /\ [][ScoreNext]_vars

\* The values generate_device_data draws for a field calculate_risk_level
\* reads; the audit age on both sides of the 30-day threshold.
FieldDomain(field) ==
    CASE field = "device_type" -> DeviceTypes
      [] field = "data_type" -> DataTypes
      [] field = "location_type" -> LocationTypes
      [] field = "access_pattern" -> AccessPatterns
      [] field = "data_sharing" -> DataSharings
      [] field = "compliance_status" -> ComplianceStatuses
      [] field = "network_security_level" -> 1..5
      [] field = "data_sensitivity" -> 1..5
      [] field = "encryption_level" -> 1..3
      [] field = "security_incidents" -> 0..4
      [] field = "last_audit_days" -> {1, 30, 31, 89}
      [] OTHER -> BOOLEAN

\* Frames of two valid rows that differ in a single field.
PairBases == {ScenarioA, ScenarioB, SafestRow, RiskiestRow, MiddleRow}

FieldPairs(field) ==
    {p \in FieldDomain(field) \X FieldDomain(field) : p[1] # p[2]}

PairFrames ==
    UNION {{<<[base EXCEPT ![field] = p[1]], [base EXCEPT ![field] = p[2]]>> :
               base \in PairBases, p \in FieldPairs(field)} :
           field \in DOMAIN ScenarioA}

PairStart ==
    /\ df \in PairFrames
    /\ scoreOut = NoScore
    /\ scoreCalls = 0

\* calculate_risk_level applied to a frame of two rows one field apart.
PairScoreInit == PairStart /\ ClfNew /\ PreNew /\ KbIdle /\ ApiNew

PairScoreNext == CalculateRiskLevel

PairScoreSpec == PairScoreInit /\ [][PairScoreNext]_vars

ClassifierInit == ScoreIdle /\ ClfNew /\ PreNew /\ KbIdle /\ ApiNew

ClassifierNext ==
    \/ \E b \in TrainBatches : Train(b)
    \/ \E X \in PredictBatches : Predict(X)
    \/ \E X \in PredictBatches : PredictProba(X)

ClassifierSpec == ClassifierInit /\ [][ClassifierNext]_vars

TransformerInit == ScoreIdle /\ ClfNew /\ PreNew /\ KbIdle /\ ApiNew

TransformerNext ==
    \/ \E i \in Preprocessors : \E frame \in Corpora : PreprocessData(i, frame)
    \/ \E i \in Preprocessors : \E frame \in NewFrames : PreprocessNewData(i, frame)
    \/ \E i \in Preprocessors : SavePreprocessor(i)
    \/ \E i \in Preprocessors : LoadPreprocessor(i)

TransformerSpec == TransformerInit /\ [][TransformerNext]_vars

\* Saving and loading of both components: the training script trains and
\* saves, prepare_training_data fits and saves, prepare_test_data loads.
PersistenceInit == ScoreIdle /\ ClfNew /\ PreNew /\ KbIdle /\ ApiNew

PersistenceNext ==
    \/ Train(ExampleBatch)
    \/ SaveModel
    \/ LoadModel
    \/ \E i \in Preprocessors : PreprocessData(i, CorpusA)
    \/ \E i \in Preprocessors : SavePreprocessor(i)
    \/ \E i \in Preprocessors : LoadPreprocessor(i)

PersistenceSpec == PersistenceInit /\ [][PersistenceNext]_vars

KnowledgeBaseInit == ScoreIdle /\ ClfNew /\ PreNew /\ KbStart /\ ApiNew

KnowledgeBaseNext ==
    \/ \E level \in RequestedLevels : GetMitigationStrategies(level)
    \/ \E device \in Devices : \E consent \in BOOLEAN :
          CheckCompliance(device, consent)
    \/ \E device \in Devices : \E consent \in BOOLEAN :
          AnalyzeRiskFactors(device, consent)

KnowledgeBaseSpec == KnowledgeBaseInit /\ [][KnowledgeBaseNext]_vars

\* The API as started by the module: an untrained classifier, the ontology
\* as loaded, empty stores.
\* The classifier is trained before the threads start to call it.
ConcurrentInit == ScoreIdle /\ ClfNew /\ PreNew /\ KbIdle /\ ApiNew

ConcurrentNext ==
    \/ /\ ~clfModel.trained
       /\ Train(ExampleBatch)
    \/ \E c \in Callers : \E op \in {"predict", "predict_proba"} :
           \E X \in ConcurrentBatches :
              /\ clfModel.trained
              /\ CallBegin(c, op, X)
    \/ \E c \in Callers : FitStep(c)
    \/ \E c \in Callers : EncodeStep(c)

ConcurrentSpec == ConcurrentInit /\ [][ConcurrentNext]_vars

ApiInit == ScoreIdle /\ ClfNew /\ PreNew /\ KbIdle /\ ApiNew

ApiNext ==
    \/ \E email \in Emails : \E password \in Passwords :
          CreateUser(email, password)
    \/ \E email \in Emails : \E password \in Passwords :
          LoginForAccessToken(email, password)
    \/ \E token \in ClientStrings : \E level \in RequestedSecurityLevels :
          CreateDevice(token, level)
    \/ \E token \in ClientStrings : \E retention \in RetentionPeriods :
          CreatePolicy(token, retention)
    \/ \E token \in ClientStrings : \E id \in ClientStrings :
          GetPolicy(token, id)
    \/ \E token \in ClientStrings : \E id \in ClientStrings :
          \E retention \in RetentionPeriods : UpdatePolicy(token, id, retention)
    \/ \E token \in ClientStrings : \E id \in ClientStrings :
          \E consent \in BOOLEAN : AssessRisk(token, id, consent)
    \/ \E token \in ClientStrings : \E id \in ClientStrings :
          GetRiskHistory(token, id)
    \/ \E token \in ClientStrings : \E id \in ClientStrings :
          ResolveRisk(token, id)
    \/ \E token \in ClientStrings : ListDevices(token)
    \/ HealthCheck

ApiSpec == ApiInit /\ [][ApiNext]_vars

\* The API under the wiring of the test suite (conftest.py): the risk
\* assessment endpoints and the ones that set up their users and devices.
MockedApiInit == ScoreIdle /\ ClfNew /\ PreNew /\ KbIdle /\ ApiNew

\* tests/test_api.py lines 24-43: the user and the device of the test suite.
TestEmails == {"test@example.com"}

TestPasswords == {"test_password"}

TestSecurityLevels == {3}

MockedApiNext ==
    \/ \E email \in TestEmails : \E password \in TestPasswords :
          CreateUser(email, password)
    \/ \E email \in TestEmails : \E password \in TestPasswords :
          LoginForAccessToken(email, password)
    \/ \E token \in ClientStrings : \E level \in TestSecurityLevels :
          CreateDevice(token, level)
    \/ \E token \in ClientStrings : \E id \in ClientStrings :
          \E consent \in BOOLEAN : AssessRiskMocked(token, id, consent)
    \/ \E token \in ClientStrings : \E id \in ClientStrings :
          GetRiskHistory(token, id)
    \/ \E token \in ClientStrings : \E id \in RiskIds :
          ResolveRisk(token, id)

MockedApiSpec == MockedApiInit /\ [][MockedApiNext]_vars

(***************************************************************************)
(* Properties of the risk scoring heuristic.                               *)
(***************************************************************************)
Scored == scoreOut.status = "ok"

\* C1 (as stated): after calculate_risk_level, every scenario-B row (the
\* scenario-A record with the security levels, consent, sensitivity, privacy
\* controls, sharing and compliance made safe) is labelled 1.
C1_ScenarioB_IsMinimum ==
    Scored => \A i \in 1..Len(df) : df[i] = ScenarioB => scoreOut.labels[i] = 1

\* C1 (amended): every scenario-B row is labelled 2: its score is 22 (burst
\* access, an audit older than 30 days and 4 incidents remain), and 22 / 8
\* truncates to 2.
C1_ScenarioB_IsTwo ==
    Scored =>
        \A i \in 1..Len(df) :
            df[i] = ScenarioB => RiskScore(df[i]) = 22 /\ scoreOut.labels[i] = 2

C1_Witness == Scored /\ \E i \in 1..Len(df) : df[i] = ScenarioB

\* C2: after calculate_risk_level, every scenario-A row (all fields at their
\* worst-case values) is labelled 5, the maximum.
C2_ScenarioA_IsMaximum ==
    Scored => \A i \in 1..Len(df) : df[i] = ScenarioA => scoreOut.labels[i] = 5

C2_Witness == Scored /\ \E i \in 1..Len(df) : df[i] = ScenarioA

\* C3: for a data frame of valid rows, calculate_risk_level returns exactly
\* one label per row, in row order, each an integer in 1..5.
C3_LabelRange ==
    (scoreCalls > 0 /\ \A i \in 1..Len(df) : ValidRow(df[i])) =>
        /\ Scored
        /\ Len(scoreOut.labels) = Len(df)
        /\ \A i \in 1..Len(df) :
              /\ scoreOut.labels[i] \in RiskLevels
              /\ scoreOut.labels[i] = Min(5, Max(1, RiskScore(df[i]) \div 8))

\* Two valid rows with different labels, the riskiest one among them.
C3_Witness ==
    /\ Scored
    /\ Len(df) = 2
    /\ ValidRow(df[1]) /\ ValidRow(df[2])
    /\ df[1] = RiskiestRow
    /\ scoreOut.labels[1] = 5
    /\ scoreOut.labels[2] = 1

\* The categorical fields calculate_risk_level reads.
HasUnknownCategory(row) ==
    \/ row.device_type \notin DeviceTypes
    \/ row.data_type \notin DataTypes
    \/ row.location_type \notin LocationTypes
    \/ row.access_pattern \notin AccessPatterns
    \/ row.data_sharing \notin DataSharings
    \/ row.compliance_status \notin ComplianceStatuses

\* C4: when a row holds an unrecognized value in any categorical field the
\* heuristic reads, the call fails with an unknown-category error and emits
\* no label.
C4_UnknownCategoryFails ==
    (scoreCalls > 0 /\ \E i \in 1..Len(df) : HasUnknownCategory(df[i])) =>
        scoreOut.status = "KeyError" /\ scoreOut.labels = <<>>

HasUnseenCategory(X) ==
    \E i \in 1..Len(X) : \E k \in 1..Len(ClfFeatures) :
        /\ ClfFeatures[k] \in DOMAIN X[i]
        /\ X[i][ClfFeatures[k]] \notin clfTrainVocab[ClfFeatures[k]]

\* C5: predict and predict_proba on a trained classifier reject a batch
\* holding a device_type, data_type or location_type value absent from the
\* training vocabulary: the call ends in an error and returns no prediction.
C5_UnseenCategoryRejected ==
    [][\A X \in PredictBatches :
          (/\ Predict(X) \/ PredictProba(X)
           /\ clfModel.trained
           /\ HasUnseenCategory(X))
          => clfOut'.status # "ok" /\ clfOut'.value = <<>>]_vars

\* C10: predict and predict_proba on a batch holding a record that lacks
\* device_type, data_type or location_type end in the "missing required
\* feature" validation error and return no prediction.
C10_MissingFeatureError ==
    [][\A X \in PredictBatches :
          (/\ Predict(X) \/ PredictProba(X)
           /\ Lacking(X) # {})
          => /\ clfOut'.status = "ValueError: Missing required feature"
             /\ clfOut'.value = <<>>]_vars

(***************************************************************************)
(* Properties of the feature transformer.                                  *)
(***************************************************************************)
\* The guard of preprocess_new_data: the object holds encoders and a column
\* list.
IsFitted(p) == DOMAIN p.label_encoders # {} /\ p.feature_columns # <<>>

\* The values the encoding table of a field was built from.
FitVocabulary(p, col) ==
    IF col \in DOMAIN p.label_encoders
    THEN SeqRange(p.label_encoders[col].classes)
    ELSE {}

\* Some record of the frame holds, in one of the six categorical fields, a
\* value the field's encoding table was not built from.
HasUnseenValue(p, frame) ==
    \E k \in 1..Len(CategoricalColumns) :
        /\ HasColumn(frame, CategoricalColumns[k])
        /\ \E v \in Column(frame, CategoricalColumns[k]) :
              v \notin FitVocabulary(p, CategoricalColumns[k])

\* C6: preprocess_new_data on a fitted transformer, given a frame with a
\* categorical value absent from the values its encoding tables were built
\* from, raises an error, returns no matrix and leaves the encoding tables
\* as they were.
C6_UnseenValueRejected ==
    [][\A i \in Preprocessors : \A frame \in NewFrames :
          (/\ PreprocessNewData(i, frame)
           /\ IsFitted(pre[i])
           /\ HasUnseenValue(pre[i], frame))
          => /\ preOut'.status # "ok"
             /\ preOut'.X = <<>>
             /\ pre'[i].label_encoders = pre[i].label_encoders]_vars

\* A transform stopped by LabelEncoder.transform on a fitted transformer.
C6_Witness ==
    /\ preOut.op = "transform"
    /\ preOut.status = "ValueError"
    /\ IsFitted(pre[preOut.by])
    /\ \E frame \in NewFrames : HasUnseenValue(pre[preOut.by], frame)

C7_ComplianceIsDeclaredState ==
    kbOut.op = "check_compliance" =>
        kbOut.status = "ok" /\ kbOut.value \in ComplianceStatuses

\* C11: get_mitigation_strategies raises the range error, without searching
\* the store, for every level outside 1..5 (0 and 6 among them), and for a
\* level in 1..5 raises no error and returns the descriptions registered for
\* that level, an empty list when there are none.
C11_MitigationRange ==
    [][\A level \in RequestedLevels :
          GetMitigationStrategies(level) =>
              IF level \in 1..5
              THEN /\ kbOut'.status = "ok"
                   /\ kbOut'.value = Descriptions(kbStore, level)
              ELSE /\ kbOut'.status = "ValueError"
                   /\ ~kbOut'.searched
                   /\ kbOut'.value = <<>>]_vars

\* Level 0 has been refused unsearched while the store holds a strategy.
C11_Witness ==
    /\ kbOut.op = "get_mitigation_strategies"
    /\ kbOut.status = "ValueError"
    /\ ~kbOut.searched
    /\ kbStore # <<>>

(***************************************************************************)
(* Properties of the classifier's probabilities.                           *)
(***************************************************************************)
\* C12: every probability vector predict_proba returns has length 5, one
\* entry per risk level 1..5, whichever labels the training set held.
C12_ProbaLengthFive ==
    (clfOut.op = "predict_proba" /\ clfOut.status = "ok") =>
        \A i \in 1..Len(clfOut.value) : Len(clfOut.value[i]) = Cardinality(RiskLevels)

\* The position of the first largest share of a probability vector.
ArgMax(p) ==
    CHOOSE c \in 1..Len(p) :
        /\ \A d \in 1..Len(p) : p[d][1] * p[c][2] <= p[c][1] * p[d][2]
        /\ \A d \in 1..(c - 1) : p[d][1] * p[c][2] < p[c][1] * p[d][2]

C14_TransformColumnsAsFit ==
    [][\A i \in Preprocessors : \A frame \in NewFrames :
          (/\ PreprocessNewData(i, frame)
           /\ preOut'.status = "ok"
           /\ preFitColumns[i] # <<>>) =>
              /\ preOut'.columns = preFitColumns[i]
              /\ Len(preOut'.X) = Len(frame.rows)
              /\ \A r \in 1..Len(preOut'.X) :
                     Len(preOut'.X[r]) = Len(preFitColumns[i])]_vars

\* C15: a load with no file at the model path, of the transformer or of the
\* classifier, ends in FileNotFoundError, never in success, and leaves the
\* object's state exactly as it was.
C15_LoadMissingFileFails ==
    [][/\ \A i \in Preprocessors :
             (LoadPreprocessor(i) /\ ~preFile.exists) =>
                 /\ preOut'.status = "FileNotFoundError"
                 /\ pre' = pre
                 /\ preFile' = preFile
       /\ (LoadModel /\ ~clfFile.exists) =>
             /\ clfOut'.status = "FileNotFoundError"
             /\ clfModel' = clfModel
             /\ clfEncoders' = clfEncoders
             /\ clfFile' = clfFile]_vars

\* Both loads have failed for want of a file, on a fitted transformer and on
\* a trained classifier.
C15_Witness ==
    /\ preOut.op = "load"
    /\ preOut.status = "FileNotFoundError"
    /\ IsFitted(pre[preOut.by])
    /\ ~preFile.exists
    /\ clfOut.op = "load_model"
    /\ clfOut.status = "FileNotFoundError"
    /\ clfModel.trained
    /\ ~clfFile.exists

\* C16: a transform-only call returns a matrix only on an object whose state
\* goes back to a completed fit, its own or, through the file, that of the
\* object whose state it loaded; on a fresh object, after a failed fit alone,
\* or after loading what an unfitted object saved, it raises.
C16_TransformOnlyWhenFitted ==
    (preOut.op = "transform" /\ preOut.status = "ok") =>
        preFitColumns[preOut.by] # <<>>

(***************************************************************************)
(* Properties of the API.                                                  *)
(***************************************************************************)
\* C17: a login answers 200 with an access token exactly when the email is
\* that of a registered user and the password is the one that user sent when
\* registering; otherwise it answers 401 and issues no token.
C17_LoginChecksRegisteredPassword ==
    [][\A email \in Emails : \A password \in Passwords :
          LoginForAccessToken(email, password) =>
              IF email \in DOMAIN apiRegistered
                 /\ apiRegistered[email] = password
              THEN /\ apiOut'.status = 200
                   /\ apiOut'.id \in apiIssued' \ apiIssued
              ELSE /\ apiOut'.status = 401
                   /\ apiIssued' = apiIssued]_vars

\* The five lookups by id, for a caller and an id.
LookupById(token, id) ==
    \/ GetRiskHistory(token, id)
    \/ GetPolicy(token, id)
    \/ \E retention \in RetentionPeriods : UpdatePolicy(token, id, retention)
    \/ \E consent \in BOOLEAN : AssessRisk(token, id, consent)
    \/ ResolveRisk(token, id)

\* The store an endpoint looks its id up in.
LookedUpIds(endpoint) ==
    IF endpoint \in {"get_risk_history", "assess_risk"} THEN DOMAIN devices_db
    ELSE IF endpoint \in {"get_policy", "update_policy"} THEN DOMAIN policies_db
    ELSE {risk_history[k].id : k \in 1..Len(risk_history)}

\* C18: get_risk_history, get_policy, update_policy, assess_risk and
\* resolve_risk answer 404 to a caller holding a token a login issued and
\* naming an id that is not stored, and change none of the stores.
C18_UnknownIdAnswers404 ==
    [][\A token \in ClientStrings : \A id \in ClientStrings :
          (/\ LookupById(token, id)
           /\ token \in apiIssued
           /\ id \notin LookedUpIds(apiOut'.endpoint)) =>
              /\ apiOut'.status = 404
              /\ UNCHANGED dbVars]_vars

\* The endpoints behind get_current_user, for a bearer token.
Guarded(token) ==
    \/ \E level \in RequestedSecurityLevels : CreateDevice(token, level)
    \/ \E retention \in RetentionPeriods : CreatePolicy(token, retention)
    \/ \E id \in ClientStrings : LookupById(token, id)
    \/ ListDevices(token)

\* C19: every endpoint other than /users, /token and /health answers 401 to
\* a bearer token that no login has issued, and such a request changes none
\* of users_db, devices_db, policies_db and risk_history.
C19_InvalidTokenAnswers401 ==
    [][\A token \in ClientStrings :
          (Guarded(token) /\ token \notin apiIssued) =>
              /\ apiOut'.status = 401
              /\ UNCHANGED dbVars]_vars

\* C20: every stored device has a network_security_level in 1..5, and a
\* create_device request with a level outside 1..5 stores no device.
C20_StoredDeviceLevelInRange ==
    /\ [](\A id \in DOMAIN devices_db :
              devices_db[id].network_security_level \in 1..5)
    /\ [][\A token \in ClientStrings : \A level \in RequestedSecurityLevels :
              (CreateDevice(token, level) /\ level \notin 1..5) =>
                  /\ devices_db' = devices_db
                  /\ apiOut'.status # 200]_vars

\* A device is stored, and an authenticated create_device request has just
\* been refused with 500.
C20_Witness ==
    /\ devices_db # <<>>
    /\ apiOut.endpoint = "create_device"
    /\ apiOut.status = 500

\* C21: predict and predict_proba leave the fitted state of a trained
\* classifier as training left it: the forest, and the vocabularies of the
\* three label encoders, which are those of the training records.
C21_InferenceReadOnly ==
    [][\A X \in PredictBatches :
          (/\ Predict(X) \/ PredictProba(X)
           /\ clfModel.trained
           /\ \A f \in SeqRange(ClfFeatures) :
                 SeqRange(clfEncoders[f].classes) = clfTrainVocab[f])
          => /\ clfModel' = clfModel
             /\ clfEncoders' = clfEncoders]_vars

\* C22: a predict or predict_proba call that runs beside other calls on the
\* shared classifier returns what it would return alone, whatever the
\* interleaving of the calls' encoder-fitting and encoding steps.
C22_ConcurrentCallsIsolated ==
    \A c \in Callers :
        clfCalls[c].pc = "done"
            => clfCalls[c].out = AloneOutcome(clfCalls[c].op, clfCalls[c].X)

\* C23: preprocess_new_data, whether it returns or raises, leaves the
\* encoding tables, the scaling statistics and the column list of every
\* preprocessor as they were, and leaves the frame it was handed unmodified.
C23_TransformReadOnly ==
    [][\A i \in Preprocessors : \A frame \in NewFrames :
          PreprocessNewData(i, frame)
              => /\ pre' = pre
                 /\ TransformResult(pre[i], frame).df = frame]_vars

\* C23: a fitted preprocessor has refused a frame holding a value it never saw.
C23_Witness ==
    /\ preOut.op = "transform"
    /\ preOut.status = "ValueError"
    /\ pre[preOut.by].feature_columns # <<>>
    /\ pre[preOut.by].scaler.fitted

\* The features _encode_features reads after the three encoded ones.
NumericFeatures == {"access_frequency", "user_consent", "network_security_level"}

\* C24: a batch holding a record without access_frequency, user_consent or
\* network_security_level, handed to a trained classifier, ends in an error;
\* no prediction is returned for it.
C24_MissingNumericFeatureRejected ==
    [][\A X \in PredictBatches :
          (/\ clfModel.trained
           /\ \E i \in 1..Len(X) : ~(NumericFeatures \subseteq DOMAIN X[i])
           /\ Predict(X) \/ PredictProba(X))
              => clfOut'.status # "ok"]_vars

\* C25: a preprocess_data call that fails leaves the encoding tables, the
\* scaling statistics and the column list of the object as they were before
\* the call.
C25_FailedFitLeavesState ==
    [][\A i \in Preprocessors : \A frame \in {EmptyCorpus, CorpusLackingColumn} :
          (PreprocessData(i, frame) /\ preOut'.status # "ok")
              => pre'[i] = pre[i]]_vars

\* The object is as one successful preprocess_data call on a new object
\* leaves it.
CleanlyFitted(p) ==
    \E c \in Corpora :
        /\ FitResult(NewPreprocessor, c).status = "ok"
        /\ p = FitResult(NewPreprocessor, c).state

\* C26: after a preprocess_data call that succeeds on an object an earlier
\* successful call has fitted, the encoding tables and the scaling
\* statistics of the object are both those of the corpus of the later call.
C26_StateFromLastFit ==
    [][\A i \in Preprocessors : \A frame \in Corpora :
          (/\ preOut'.op = "fit" /\ preOut'.status = "ok"
           /\ CleanlyFitted(pre[i])
           /\ PreprocessData(i, frame))
              => LET fresh == FitResult(NewPreprocessor, frame).state
                 IN  /\ pre'[i].label_encoders = fresh.label_encoders
                     /\ pre'[i].scaler = fresh.scaler]_vars

\* C27: in a predict or predict_proba call that returns, every categorical
\* value the training records held is encoded with the code training gave
\* it, whatever other records the batch holds.
C27_TrainServeParity ==
    [][\A X \in PredictBatches :
          (/\ clfModel.trained
           /\ clfOut'.status = "ok"
           /\ Predict(X) \/ PredictProba(X))
              => \A i \in 1..Len(X) : \A f \in SeqRange(ClfFeatures) :
                    X[i][f] \in clfTrainVocab[f]
                        => Code(clfEncoders'[f], X[i][f])
                              = Code(FitEncoder(clfTrainVocab[f]), X[i][f])]_vars

\* C28: a string passes get_current_user as a bearer token only if POST /token
\* has returned it as an access token.
C28_OnlyIssuedTokensAuthenticate ==
    \A token \in ClientStrings : Authenticated(token) => token \in apiIssued

\* C29: risk_history only grows at its end: a POST /assess_risk answered 200
\* appends exactly one entry, unresolved; an /assess_risk answered otherwise,
\* and every other request, appends nothing; no entry is removed or moved,
\* none changes its id, device, level or suggestions, and resolved only goes
\* from false to true.
C29_RiskHistoryAppendOnly ==
    [][LET n == Len(risk_history)
           assessed == apiOut'.endpoint = "assess_risk" /\ apiOut'.status = 200
       IN  /\ Len(risk_history') = IF assessed THEN n + 1 ELSE n
           /\ assessed => risk_history'[n + 1].resolved = FALSE
           /\ \A k \in 1..n :
                 /\ risk_history'[k].id = risk_history[k].id
                 /\ risk_history'[k].device_id = risk_history[k].device_id
                 /\ risk_history'[k].risk_level = risk_history[k].risk_level
                 /\ risk_history'[k].mitigation_suggestions
                       = risk_history[k].mitigation_suggestions
                 /\ risk_history[k].resolved => risk_history'[k].resolved]_vars

\* C29: two assessments are stored, the first one resolved since, and the
\* last request was an /assess_risk that failed.
C29_Witness ==
    /\ Len(risk_history) = 2
    /\ risk_history[1].resolved
    /\ ~risk_history[2].resolved
    /\ apiOut.endpoint = "assess_risk"
    /\ apiOut.status = 500

\* The order of the values of the three tiered fields, safest first.
Tiers(field) ==
    CASE field = "access_pattern" -> <<"regular", "irregular", "burst">>
      [] field = "data_sharing" -> <<"none", "internal", "external">>
      [] field = "compliance_status" ->
            <<"compliant", "partially_compliant", "non_compliant">>

Tier(field, v) == CHOOSE k \in 1..3 : Tiers(field)[k] = v

\* Value a is safer than value b in the field.
Safer(field, a, b) ==
    CASE field \in {"network_security_level", "encryption_level"} -> a > b
      [] field \in {"data_sensitivity", "security_incidents"} -> a < b
      [] field = "last_audit_days" -> a <= 30 /\ b > 30
      [] field \in {"access_pattern", "data_sharing", "compliance_status"} ->
            Tier(field, a) < Tier(field, b)
      [] field \in {"device_type", "data_type", "location_type"} -> FALSE
      [] OTHER -> a /\ ~b

\* The single field in which the two rows of the frame differ.
DifferingField == CHOOSE f \in DOMAIN df[1] : df[1][f] # df[2][f]

\* C30: of two valid rows that differ in a single field, the row that is
\* safer in that field is not labelled higher than the other.
C30_LabelMonotone ==
    (/\ scoreOut.status = "ok"
     /\ Len(df) = 2
     /\ ValidRow(df[1]) /\ ValidRow(df[2])
     /\ Cardinality({f \in DOMAIN df[1] : df[1][f] # df[2][f]}) = 1
     /\ Safer(DifferingField, df[1][DifferingField], df[2][DifferingField]))
        => scoreOut.labels[1] <= scoreOut.labels[2]

\* C30: two rows that differ in network_security_level only have been
\* labelled, the one with the higher level strictly lower.
C30_Witness ==
    /\ scoreOut.status = "ok"
    /\ Len(df) = 2
    /\ ValidRow(df[1]) /\ ValidRow(df[2])
    /\ Cardinality({f \in DOMAIN df[1] : df[1][f] # df[2][f]}) = 1
    /\ df[1].network_security_level > df[2].network_security_level
    /\ scoreOut.labels[1] < scoreOut.labels[2]

====
